---- MODULE Spec2Model ----
(***************************************************************************)
(* Contact-form submission pipeline of the portfolio repository: the       *)
(* Express route (rateLimit middleware + router.post handler) and the      *)
(* Lambda handler (exports.handler).  One behaviour is one process of one  *)
(* variant: its rate-limit map, its wall clock, the requests in flight at  *)
(* the awaited sendMail call, and the record of the request handled last.  *)
(***************************************************************************)
EXTENDS Integers, FiniteSets, Sequences, TLC

(* ------------------------------ bounds -------------------------------- *)

\* Date.now() ranges over k * RATE_LIMIT_WINDOW + {-1, 0, 1}, k in 0..MaxWindows
MaxWindows == 1

\* requests suspended at `await transporter.sendMail` at the same time
MaxInFlight == 1

\* calls of emailjs.send of the contact form that have not settled
MaxSending == 2

\* words on the command line of deploy.sh
MaxArgs == 3

\* requests sent to the two variants side by side
MaxRequests == 3

\* calls of fetchProjectSnippets that are suspended at the same time
MaxFetching == 2

(* ------------------------- program constants -------------------------- *)

RATE_LIMIT_WINDOW == 10 * 1000

requiredEnvVars ==
    {"SMTP_HOST", "SMTP_PORT", "SMTP_USER", "SMTP_PASS", "CONTACT_TO_EMAIL", "FROM_EMAIL"}

MsgInvalidForm == "Invalid form data. Please check your inputs."
MsgMissingFields == "Missing required fields: name, email, message"
MsgNameLength == "Name must be between 2 and 80 characters"
MsgEmailInvalid == "Please enter a valid email address"
MsgMessageLength == "Message must be between 10 and 2000 characters"
MsgTooMany == "Too many requests. Please wait a moment before trying again."
MsgNotConfigured == "Email service not configured. Please contact the administrator."
MsgFailedToSend == "Failed to send email. Please try again later."
MsgSent == "Message sent successfully"

(* ----------------------------- JS values ------------------------------ *)

\* A field of the request body: undefined (missing), a number, or a string.
\* A string is known by its length and by how it looks as an e-mail address:
\* at = it contains '@', wf = it is a well-formed address (wf => at).
Undefined == [t |-> "undefined", n |-> 0, at |-> FALSE, wf |-> FALSE]
Num(k) == [t |-> "number", n |-> k, at |-> FALSE, wf |-> FALSE]
Str(len) == [t |-> "string", n |-> len, at |-> FALSE, wf |-> FALSE]
Addr(len, wellFormed) == [t |-> "string", n |-> len, at |-> TRUE, wf |-> wellFormed]

\* JS truthiness of a field value (`!name`)
Truthy(v) ==
    CASE v.t = "undefined" -> FALSE
      [] v.t = "number" -> v.n # 0
      [] v.t = "string" -> v.n > 0

\* the two comparisons joined by `&&`
LengthOutside_And(v, lo, hi) == v.t = "string" /\ (v.n < lo /\ v.n > hi)

\* `v.length < lo || v.length > hi`: the length of a number is undefined and
\* both comparisons with undefined are false
LengthOutside(v, lo, hi) == v.t = "string" /\ (v.n < lo \/ v.n > hi)

(* ------------------------------ inputs -------------------------------- *)

Ids == {"ip1", "ip2"}

TimePoints ==
    {t \in {k * RATE_LIMIT_WINDOW + d : k \in 0..MaxWindows, d \in {-1, 0, 1}} : t >= 0}

\* the submission of the spec's round trip: "Jane Doe", "jane@example.com",
\* "Hello, this is a test message."
Jane == [raw |-> "object", name |-> Str(8), email |-> Addr(16, TRUE), message |-> Str(30)]

\* field values that replace one field of Jane's body: missing, a number, a
\* string that is too short, an address without '@' and one that has an '@'
\* but is not well formed ("a@")
NameValues == {Undefined, Num(12345), Str(1)}
EmailValues == {Num(12345), Str(4), Addr(2, FALSE)}
MessageValues == {Num(12345), Str(9)}

ObjectBodies ==
    {Jane}
    \cup {[Jane EXCEPT !.name = v] : v \in NameValues}
    \cup {[Jane EXCEPT !.email = v] : v \in EmailValues}
    \cup {[Jane EXCEPT !.message = v] : v \in MessageValues}

\* the bodies of the validation rules: every combination of a missing field,
\* a number, the empty string and strings at and next to the bounds
NameLengths == {0, 1, 2, 8, 80, 81}
MessageLengths == {0, 9, 10, 30, 2000, 2001}
ValidationBodies ==
    {[raw |-> "object", name |-> n, email |-> e, message |-> m] :
        n \in {Undefined, Num(12345)} \cup {Str(k) : k \in NameLengths},
        e \in {Undefined, Num(12345), Str(0), Str(4), Addr(2, FALSE), Addr(16, TRUE)},
        m \in {Undefined, Num(12345)} \cup {Str(k) : k \in MessageLengths}}

NoFields(kind) == [raw |-> kind, name |-> Undefined, email |-> Undefined, message |-> Undefined]

\* event.body of the Lambda: absent, text that is not JSON, the JSON text
\* `null`, or the JSON text of an object
LambdaBodies == ObjectBodies \cup {NoFields("absent"), NoFields("unparseable"), NoFields("null")}

\* req.body of the Express route, as left by the JSON body parser
ExpressBodies == ObjectBodies \cup {NoFields("absent")}

Unset == "undefined"

\* a || b on values that are undefined or strings
Or(a, b) == IF a \in {Unset, ""} THEN b ELSE a

\* process.env.ALLOWED_ORIGIN: unset, empty, or an origin other than the default
AllowedOrigins == {Unset, "", "https://www.arjansubedi.com"}

\* process.env of the Lambda: the SMTP configuration and ALLOWED_ORIGIN
WithOrigin(env, origin) ==
    [v \in (DOMAIN env) \cup {"ALLOWED_ORIGIN"} |->
        IF v = "ALLOWED_ORIGIN" THEN origin ELSE env[v]]
EnvFull == [v \in requiredEnvVars |-> IF v = "SMTP_PORT" THEN "587" ELSE "set"]
EnvNone == [v \in requiredEnvVars |-> Unset]

\* values of SMTP_PORT other than "587": the TLS port, the TLS port with a
\* leading zero, with a trailing blank and in hexadecimal, another port, and
\* text that is not a number
PortValues == {"465", "0465", "465 ", "0x1D1", "25", "smtp"}

\* complete, empty, one variable unset, one variable set to the empty string,
\* and complete with each of the other ports
EnvChoices ==
    {EnvFull, EnvNone, [EnvFull EXCEPT !["SMTP_PASS"] = ""]}
    \cup {[EnvFull EXCEPT ![v] = Unset] : v \in requiredEnvVars}
    \cup {[EnvFull EXCEPT !["SMTP_PORT"] = p] : p \in PortValues}
NotRead == [v \in requiredEnvVars |-> "notread"]

\* what the mail library does for one request: the factory call throws or
\* returns a transport, and the promise of sendMail resolves or rejects
FactoryBehaviours == {"createThrows", "created"}
SendOutcomes == {"sendOk", "sendThrows"}
TransportErrorText == "connect ECONNREFUSED 127.0.0.1:587"

(* --------------------------- shared helpers --------------------------- *)

EmptyMap == [k \in {} |-> 0]

\* a set that drops the entries of the other keys
MapSet_Only(map, key, value) == [k \in {key} |-> value]

\* Map.prototype.set on the rate-limit map (a function on the keys it holds)
MapSet(map, key, value) ==
    [k \in (DOMAIN map) \cup {key} |-> IF k = key THEN value ELSE map[k]]

\* the characters of the strings that SMTP_PORT takes in the model
Chars(s) ==
    CASE s = "587" -> <<"5", "8", "7">>
      [] s = "465" -> <<"4", "6", "5">>
      [] s = "0465" -> <<"0", "4", "6", "5">>
      [] s = "465 " -> <<"4", "6", "5", " ">>
      [] s = "0x1D1" -> <<"0", "x", "1", "D", "1">>
      [] s = "25" -> <<"2", "5">>
      [] s = "smtp" -> <<"s", "m", "t", "p">>

\* the value of a character as a digit; 36 for a character that is no digit
DigitValue(c) ==
    CASE c = "0" -> 0 [] c = "1" -> 1 [] c = "2" -> 2 [] c = "3" -> 3 [] c = "4" -> 4
      [] c = "5" -> 5 [] c = "6" -> 6 [] c = "7" -> 7 [] c = "8" -> 8 [] c = "9" -> 9
      [] c \in {"a", "A"} -> 10 [] c \in {"b", "B"} -> 11 [] c \in {"c", "C"} -> 12
      [] c \in {"d", "D"} -> 13 [] c \in {"e", "E"} -> 14 [] c \in {"f", "F"} -> 15
      [] OTHER -> 36

\* NaN, as a number that no string of the model parses to
NaN == -1

\* the white space of the strings of the model: blank, tab, line feed
WhiteSpace == {" ", "\t", "\n"}

RECURSIVE SkipWhiteSpace(_)
SkipWhiteSpace(s) ==
    IF s # <<>> /\ Head(s) \in WhiteSpace THEN SkipWhiteSpace(Tail(s)) ELSE s

\* the longest prefix of s made of digits of the radix, as a number
RECURSIVE ParseDigits(_, _, _)
ParseDigits(s, radix, acc) ==
    IF s = <<>> \/ DigitValue(Head(s)) >= radix
    THEN acc
    ELSE ParseDigits(Tail(s), radix,
                     (IF acc = NaN THEN 0 ELSE acc) * radix + DigitValue(Head(s)))

\* parseInt(string) with no radix: leading white space and a sign are
\* skipped, the prefix 0x selects radix 16, the digits are read up to the
\* first character that is none, and the result is NaN when there is no digit
parseInt(s) ==
    LET a == SkipWhiteSpace(s)
        signed == a # <<>> /\ Head(a) \in {"+", "-"}
        b == IF signed THEN Tail(a) ELSE a
        hex == Len(b) >= 2 /\ b[1] = "0" /\ b[2] \in {"x", "X"}
        v == IF hex THEN ParseDigits(SubSeq(b, 3, Len(b)), 16, NaN)
                    ELSE ParseDigits(b, 10, NaN)
    IN IF v # NaN /\ signed /\ Head(a) = "-" THEN 0 - v ELSE v

\* the options that createTransporter() hands to the mail library
NoOptions == [port |-> NaN, secure |-> FALSE]
createTransporter(env) ==
    [port |-> parseInt(Chars(IF env["SMTP_PORT"] \in {Unset, ""}
                             THEN "587" ELSE env["SMTP_PORT"])),
     secure |-> env["SMTP_PORT"] = "465"]

\* Map.prototype.get: the stored timestamp, or undefined (-1) for no entry;
\* Unread stands for a request whose handler never called it
MapGet(map, key) == IF key \in DOMAIN map THEN map[key] ELSE -1
Unread == -2

\* the filter taken as `process.env[varName] === undefined`
missingVars_OnlyUnset(env) == {v \in requiredEnvVars : env[v] = Unset}

\* `requiredEnvVars.filter(varName => !process.env[varName])`: an unset
\* variable and an empty one are both falsy
missingVars(env) == {v \in requiredEnvVars : env[v] = Unset \/ env[v] = ""}

NoMail == [from |-> "none", to |-> "none", subjectName |-> Undefined, replyTo |-> Undefined]

\* replyTo taken from the configured sender instead of the submitter
mailOptions_ReplyToSender(name, email, env) ==
    [from |-> env["FROM_EMAIL"], to |-> env["CONTACT_TO_EMAIL"],
     subjectName |-> name, replyTo |-> Str(3)]

\* mailOptions: subject is `New portfolio message from ${name}`, replyTo the
\* submitted email, from and to the configured addresses
mailOptions(name, email, env) ==
    [from |-> env["FROM_EMAIL"], to |-> env["CONTACT_TO_EMAIL"],
     subjectName |-> name, replyTo |-> email]

\* what a handler has done with one request: the stages it went through, the
\* timestamp its limiter read (lastRequest), the map it leaves, the calls it
\* made and the response (status 0: no response
\* yet, the handler is suspended at the awaited sendMail)
Res0(map) ==
    [validated |-> "skipped", limiter |-> "skipped", seen |-> Unread, map |-> map,
     envRead |-> NotRead, transport |-> "notreached", options |-> NoOptions,
     created |-> FALSE, sendCalls |-> 0, mail |-> NoMail, thrown |-> "",
     allowedOrigin |-> "notread", headers |-> <<>>, status |-> 0, success |-> FALSE,
     text |-> ""]

Respond(r, status, success, text) ==
    [r EXCEPT !.status = status, !.success = success, !.text = text]

\* a catch block that answers with the text of the error it caught
catchBlock_Leaks(r, error) == Respond([r EXCEPT !.thrown = error], 500, FALSE, error)

\* the catch block of either handler: the error is logged, the body is fixed
catchBlock(r, error) == Respond([r EXCEPT !.thrown = error], 500, FALSE, MsgFailedToSend)

\* the comparison of the window check taken as `<=`
tooSoon_Inclusive(map, ip, now) ==
    /\ ip \in DOMAIN map
    /\ map[ip] # 0
    /\ now - map[ip] <= RATE_LIMIT_WINDOW

\* `lastRequest && now - lastRequest < RATE_LIMIT_WINDOW`: an absent entry
\* (undefined) and a stored timestamp 0 are both falsy
tooSoon(map, ip, now) ==
    /\ ip \in DOMAIN map
    /\ map[ip] # 0
    /\ now - map[ip] < RATE_LIMIT_WINDOW

\* from createTransporter() to the awaited sendMail, the same text in both
\* handlers: the factory may throw, message.replace throws on a value that
\* is not a string, and then sendMail is called once and awaited
dispatch(r, req, env, tb) ==
    LET r1 == [r EXCEPT !.transport = tb, !.options = createTransporter(env)] IN
    IF tb = "createThrows"
    THEN catchBlock(r1, "TypeError: nodemailer.createTransporter is not a function")
    ELSE LET r2 == [r1 EXCEPT !.created = TRUE] IN
         IF req.message.t # "string"
         THEN catchBlock(r2, "TypeError: message.replace is not a function")
         ELSE [r2 EXCEPT !.sendCalls = r2.sendCalls + 1,
                         !.mail = mailOptions(req.name, req.email, env)]

\* the environment check without its `return`: the response is overwritten
\* by whatever the dispatch does
configured_NoReturn(r, req, env, tb) ==
    dispatch([r EXCEPT !.envRead = [v \in requiredEnvVars |-> env[v]]], req, env, tb)

\* the environment check of either handler, then the dispatch
configured(r, req, env, tb) ==
    LET r1 == [r EXCEPT !.envRead = [v \in requiredEnvVars |-> env[v]]] IN
    IF Cardinality(missingVars(env)) > 0
    THEN Respond(r1, 500, FALSE, MsgNotConfigured)
    ELSE dispatch(r1, req, env, tb)

(* --------------------------- Express route ---------------------------- *)

\* the schema without the lower bound of the message
contactSchema_NoMessageMin(body) ==
    /\ body.raw = "object"
    /\ body.name.t = "string" /\ body.name.n >= 2 /\ body.name.n <= 80
    /\ body.email.t = "string" /\ body.email.wf
    /\ body.message.t = "string" /\ body.message.n <= 2000

\* contactSchema.safeParse(req.body).success
contactSchema(body) ==
    /\ body.raw = "object"
    /\ body.name.t = "string" /\ body.name.n >= 2 /\ body.name.n <= 80
    /\ body.email.t = "string" /\ body.email.wf
    /\ body.message.t = "string" /\ body.message.n >= 10 /\ body.message.n <= 2000

\* the async handler of router.post, entered through next()
routerPost(r, req, env, tb) ==
    IF ~contactSchema(req)
    THEN Respond([r EXCEPT !.validated = "fail"], 400, FALSE, MsgInvalidForm)
    ELSE configured([r EXCEPT !.validated = "pass"], req, env, tb)

\* a middleware that restarts the window on a rejected request too
rateLimit_Sliding(req, ip, now, env, tb, map) ==
    LET r == [Res0(MapSet(map, ip, now)) EXCEPT !.seen = MapGet(map, ip)] IN
    IF tooSoon(map, ip, now)
    THEN Respond([r EXCEPT !.limiter = "reject"], 429, FALSE, MsgTooMany)
    ELSE routerPost([r EXCEPT !.limiter = "admit"], req, env, tb)

\* a middleware that calls next() without having stored the timestamp, as
\* when the map is written only after the handler has finished
rateLimit_WriteLater(req, ip, now, env, tb, map) ==
    LET r == [Res0(map) EXCEPT !.seen = MapGet(map, ip)] IN
    IF tooSoon(map, ip, now)
    THEN Respond([r EXCEPT !.limiter = "reject"], 429, FALSE, MsgTooMany)
    ELSE routerPost([r EXCEPT !.limiter = "admit"], req, env, tb)

\* the rateLimit middleware, which runs before the handler: get, compare and
\* set in one synchronous block
rateLimit(req, ip, now, env, tb, map) ==
    LET r == [Res0(map) EXCEPT !.seen = MapGet(map, ip)] IN
    IF tooSoon(map, ip, now)
    THEN Respond([r EXCEPT !.limiter = "reject"], 429, FALSE, MsgTooMany)
    ELSE routerPost([r EXCEPT !.limiter = "admit", !.map = MapSet(map, ip, now)],
                    req, env, tb)

(* --------------------------- Lambda handler --------------------------- *)

\* lines 90-106 and what follows them: rate limiting by source IP
lambdaRateLimit(r, req, ip, now, env, tb) ==
    LET r1 == [r EXCEPT !.seen = MapGet(r.map, ip)] IN
    IF tooSoon(r.map, ip, now)
    THEN Respond([r1 EXCEPT !.limiter = "reject"], 429, FALSE, MsgTooMany)
    ELSE configured([r1 EXCEPT !.limiter = "admit", !.map = MapSet(r.map, ip, now)],
                    req, env, tb)

\* the names of the CORS headers that the Lambda puts on its responses
CorsHeaders ==
    {"Access-Control-Allow-Origin", "Access-Control-Allow-Headers",
     "Access-Control-Allow-Methods", "Access-Control-Allow-Credentials"}

\* event.httpMethod of the events that reach the Lambda
Methods == {"POST", "OPTIONS"}

\* the origin is the fixed one, whatever ALLOWED_ORIGIN is
headers_FixedOrigin(env) ==
    [h \in CorsHeaders |->
        CASE h = "Access-Control-Allow-Origin" -> "https://arjansubedi.com"
          [] h = "Access-Control-Allow-Headers" -> "Content-Type"
          [] h = "Access-Control-Allow-Methods" -> "POST, OPTIONS"
          [] h = "Access-Control-Allow-Credentials" -> "true"]

\* the `headers` object built at the top of the handler
headers(env) ==
    [h \in CorsHeaders |->
        CASE h = "Access-Control-Allow-Origin" ->
                Or(env["ALLOWED_ORIGIN"], "https://arjansubedi.com")
          [] h = "Access-Control-Allow-Headers" -> "Content-Type"
          [] h = "Access-Control-Allow-Methods" -> "POST, OPTIONS"
          [] h = "Access-Control-Allow-Credentials" -> "true"]

\* a result that carries the headers of this invocation
Res1(env, map) ==
    [Res0(map) EXCEPT !.allowedOrigin = env["ALLOWED_ORIGIN"], !.headers = headers(env)]

\* the answer to a preflight request: 200, the headers, and the body ''
preflight(env, map) == Respond(Res1(env, map), 200, FALSE, "")

\* exports.handler for an event that is not a preflight request, up to the
\* awaited sendMail
handler(req, ip, now, env, tb, map) ==
    LET r == Res1(env, map)
        fail == [r EXCEPT !.validated = "fail"]
        threw == [r EXCEPT !.validated = "threw"]
    IN
    IF req.raw = "unparseable"
    THEN catchBlock(threw, "SyntaxError: Unexpected token in JSON")
    ELSE IF req.raw = "null"
    THEN catchBlock(threw, "TypeError: Cannot destructure property of null")
    ELSE IF ~Truthy(req.name) \/ ~Truthy(req.email) \/ ~Truthy(req.message)
    THEN Respond(fail, 400, FALSE, MsgMissingFields)
    ELSE IF LengthOutside(req.name, 2, 80)
    THEN Respond(fail, 400, FALSE, MsgNameLength)
    ELSE IF req.email.t # "string"
    THEN catchBlock(threw, "TypeError: email.includes is not a function")
    ELSE IF ~req.email.at
    THEN Respond(fail, 400, FALSE, MsgEmailInvalid)
    ELSE IF LengthOutside(req.message, 10, 2000)
    THEN Respond(fail, 400, FALSE, MsgMessageLength)
    ELSE lambdaRateLimit([r EXCEPT !.validated = "pass"], req, ip, now, env, tb)

\* a handler without the preflight branch
exportsHandler_NoPreflight(method, req, ip, now, env, tb, map) ==
    handler(req, ip, now, env, tb, map)

\* exports.handler: the preflight branch comes first
exportsHandler(method, req, ip, now, env, tb, map) ==
    IF method = "OPTIONS" THEN preflight(env, map) ELSE handler(req, ip, now, env, tb, map)

\* a handler that calls sendMail a second time when the first call rejects
afterSend_Retry(r, outcome) ==
    IF outcome = "sendOk"
    THEN Respond([r EXCEPT !.transport = outcome], 200, TRUE, MsgSent)
    ELSE catchBlock([r EXCEPT !.transport = outcome, !.sendCalls = r.sendCalls + 1],
                    TransportErrorText)

\* the rest of either handler once the awaited sendMail settles
afterSend(r, outcome) ==
    IF outcome = "sendOk"
    THEN Respond([r EXCEPT !.transport = outcome], 200, TRUE, MsgSent)
    ELSE catchBlock([r EXCEPT !.transport = outcome], TransportErrorText)

(* ------------------------------ state --------------------------------- *)

VARIABLES
    scope,          \* which part of the input space this behaviour draws from
    variant,        \* "express" or "lambda": which handler this process runs
    clock,          \* Date.now()
    rateLimitMap,   \* the process-wide Map of the variant
    pending,        \* requests suspended at `await transporter.sendMail`
    last,           \* the request handled by the latest handler step
    hist,           \* per instance and identifier, what it has admitted since its start (history)
    admittedAt,     \* per identifier, the time of its latest admission by any instance (history)
    browserNow,     \* Date.now() in the browser that shows ContactSection
    submitTime,     \* useState<number | null>(null), -1 for null
    isSubmitting,   \* useState(false)
    toast,          \* the message of the toast, NoToast for null
    sending,        \* calls of emailjs.send that have not settled
    submitted,      \* the latest call of onSubmit and what it did
    rendered,       \* the isSubmitting of the latest render: the `disabled` of the DOM
    fields,         \* the name, email and message inputs: "empty" or "filled"
    settled,        \* the latest onSubmit that got past its awaited send
    argv,           \* deploy.sh: the positional parameters not yet shifted away
    shellVars,      \* deploy.sh: its configuration variables
    cdkContext,     \* the context values of the CDK app
    deployPc,       \* deploy.sh: where the script is
    stack,          \* the stack that the CDK app has built, NoStack before
    pairClock,      \* Date.now() of the two variants run side by side
    pairMaps,       \* the Map of the Express process and of the Lambda process
    pairCodes,      \* the status codes each of the two has returned, in order
    pairLast,       \* the request both have handled last
    selectedProject, \* Projects: useState(null), the slug of the project in the modal
    loading,        \* Projects: useState(false)
    snippets,       \* Projects: useState({}), the entries stored under each slug
    fetching,       \* Projects: the calls of fetchProjectSnippets that are suspended
    completed       \* Projects: the call of fetchProjectSnippets that returned last

serverVars == <<scope, variant, clock, rateLimitMap, pending, last, hist, admittedAt>>
formVars == <<browserNow, submitTime, isSubmitting, toast, sending, submitted,
              rendered, fields, settled>>
infraVars == <<argv, shellVars, cdkContext, deployPc, stack>>
vars == <<scope, variant, clock, rateLimitMap, pending, last, hist, admittedAt,
          browserNow, submitTime, isSubmitting, toast, sending, submitted,
          rendered, fields, settled,
          argv, shellVars, cdkContext, deployPc, stack,
          pairClock, pairMaps, pairCodes, pairLast,
          selectedProject, loading, snippets, fetching, completed>>
pairVars == <<pairClock, pairMaps, pairCodes, pairLast>>
projectsVars == <<selectedProject, loading, snippets, fetching, completed>>

\* what a step of the server, of the form and of the deployment leaves alone
nonServerVars == <<formVars, infraVars, pairVars, projectsVars>>
nonFormVars == <<serverVars, infraVars, pairVars, projectsVars>>
nonInfraVars == <<serverVars, formVars, pairVars, projectsVars>>
nonPairVars == <<serverVars, formVars, infraVars, projectsVars>>
nonProjectsVars == <<serverVars, formVars, infraVars, pairVars>>

(* CDK infrastructure: values *)

\* the configuration variables of deploy.sh, and its DESTROY flag
ShellNames ==
    {"BUCKET_NAME", "GITHUB_USERNAME", "GITHUB_REPO_NAME", "DOMAIN_NAME", "ENABLE_CLOUDFRONT"}

\* a shell variable: its value (Unset when it has none), whether it carries
\* the export attribute, and the value the command line gave it (history)
ShellVar(value, exported) == [value |-> value, exported |-> exported, cli |-> Unset]

\* the values of the `export` lines of the README
InheritedValue ==
    [n \in ShellNames |->
        CASE n = "BUCKET_NAME" -> "my-portfolio"
          [] n = "GITHUB_USERNAME" -> "myuser"
          [] n = "GITHUB_REPO_NAME" -> "myrepo"
          [] n = "DOMAIN_NAME" -> "mydomain.com"
          [] n = "ENABLE_CLOUDFRONT" -> "true"]

\* the script starts with the variables of S inherited from its environment,
\* which are exported, and with DESTROY=false
Inherited(S) ==
    [n \in ShellNames \cup {"DESTROY"} |->
        IF n = "DESTROY" THEN ShellVar("false", FALSE)
        ELSE IF n \in S THEN ShellVar(InheritedValue[n], TRUE)
        ELSE ShellVar(Unset, FALSE)]

Environments ==
    {Inherited(S) : S \in {{}, {"ENABLE_CLOUDFRONT"}, {"DOMAIN_NAME"}, ShellNames}}

\* the words of a command line: options in their short or long form, and a value
Tokens ==
    {"-b", "-u", "-r", "-d", "-c", "--domain-name", "--enable-cloudfront", "--destroy",
     "-h", "example.dev"}

ArgLists == UNION {[1..n -> Tokens] : n \in 0..MaxArgs}

\* the patterns of the case statement: the variable an option sets
Option(tok) ==
    CASE tok \in {"-h", "--help"} -> "help"
      [] tok \in {"-b", "--bucket-name"} -> "BUCKET_NAME"
      [] tok \in {"-u", "--github-username"} -> "GITHUB_USERNAME"
      [] tok \in {"-r", "--github-repo"} -> "GITHUB_REPO_NAME"
      [] tok \in {"-d", "--domain-name"} -> "DOMAIN_NAME"
      [] tok \in {"-c", "--enable-cloudfront"} -> "ENABLE_CLOUDFRONT"
      [] tok = "--destroy" -> "DESTROY"
      [] OTHER -> "unknown"

\* NAME=value in the shell: the variable keeps its export attribute
Assign(sv, name, value, fromCli) ==
    [sv EXCEPT ![name] = [value |-> value, exported |-> @.exported,
                          cli |-> IF fromCli THEN value ELSE @.cli]]

\* ${NAME:-default}: the default when NAME is unset or empty
OrDefault(sv, name, default) ==
    IF sv[name].value \in {Unset, ""} THEN default ELSE sv[name].value

\* process.env of a child process: the exported variables only
processEnv(sv) ==
    [n \in ShellNames |-> IF sv[n].exported THEN sv[n].value ELSE Unset]

ContextKeys == {"bucketName", "githubUsername", "githubRepoName", "domainName", "enableCloudFront"}
NoContext == [k \in ContextKeys |-> Unset]

\* deploy.sh passes no --context; cdk.json may hold one
Contexts == {NoContext, [NoContext EXCEPT !["domainName"] = "context.dev"]}

\* the props that bin/portfolio-infrastructure.ts hands to the stack;
\* enableCloudFront by its truthiness
AppProps(ctx, env) ==
    [bucketName |-> Or(Or(ctx["bucketName"], env["BUCKET_NAME"]), "arjan-subedi-portfolio"),
     githubUsername |-> Or(Or(ctx["githubUsername"], env["GITHUB_USERNAME"]), "itisaarjan"),
     githubRepoName |-> Or(Or(ctx["githubRepoName"], env["GITHUB_REPO_NAME"]), "FullTimePortfolio"),
     domainName |-> Or(ctx["domainName"], env["DOMAIN_NAME"]),
     enableCloudFront |->
        IF ctx["enableCloudFront"] \in {Unset, ""}
        THEN env["ENABLE_CLOUDFRONT"] = "true" ELSE TRUE]

\* the versions of PortfolioInfrastructureStack in the repository: with an A
\* record, with A and AAAA records, and with the contact API
StackVersions == {"aRecord", "dualStack", "contactApi"}

AlwaysOutputs == {"BucketName", "BucketWebsiteUrl", "DeploymentRoleArn"}
DistributionOutputs == {"DistributionId", "DistributionDomainName"}

NoStack == [version |-> "none", props |-> AppProps(NoContext, processEnv(Inherited({}))),
            resources |-> {}, outputs |-> {}]

\* the constructor: the ids of the constructs and of the outputs it declares
PortfolioInfrastructureStack(version, props) ==
    LET cf == props.enableCloudFront
        dom == props.domainName \notin {Unset, ""}
        records == IF version = "aRecord" THEN {"PortfolioARecord"}
                   ELSE {"PortfolioARecord", "PortfolioAaaaRecord"}
        api == IF version = "contactApi"
               THEN {"ContactFunction", "ContactApi", "ApiGatewayPolicy"} ELSE {}
        declared == AlwaysOutputs
                    \cup (IF cf THEN DistributionOutputs ELSE {})
                    \cup (IF cf /\ dom THEN {"WebsiteUrl"} ELSE {})
                    \cup (IF cf /\ version = "contactApi" THEN {"ContactApiUrl"} ELSE {})
    IN
    [version |-> version,
     props |-> props,
     resources |->
        {"PortfolioBucket", "GitHubOIDCProvider", "GitHubActionsDeploymentRole",
         "S3DeploymentPolicy"}
        \cup (IF cf
              THEN {"PortfolioDistribution", "CloudFrontInvalidationPolicy"} \cup api
                   \cup (IF dom THEN {"HostedZone", "Certificate"} \cup records ELSE {})
              ELSE {}),
     outputs |-> IF version = "contactApi" /\ ~cf THEN {} ELSE declared]

\* no deployment runs
InfraIdle ==
    /\ argv = <<>>
    /\ shellVars = Inherited({})
    /\ cdkContext = NoContext
    /\ deployPc = "none"
    /\ stack = NoStack

(* Projects: values *)

FilePattern(label, pattern, language) ==
    [label |-> label, pattern |-> pattern, language |-> language]

NoConfig == [repo |-> Unset, filePatterns |-> <<>>]

\* configs[projectSlug], NoConfig for undefined
getProjectConfig(projectSlug) ==
    CASE projectSlug = "cloudshop" ->
            [repo |-> "itisaarjan/cloudshop",
             filePatterns |->
                <<FilePattern("CI/CD Pipeline", ".github/workflows/", "yaml"),
                  FilePattern("CDK Stack", "code/cdk/lib/", "typescript"),
                  FilePattern("README", "README.md", "markdown")>>]
      [] projectSlug = "personal-finance-tracker" ->
            [repo |-> "itisaarjan/PersonalFinanceTracker",
             filePatterns |->
                <<FilePattern("API Routes", "server/routes/", "javascript"),
                  FilePattern("Server Setup", "server/server.js", "javascript"),
                  FilePattern("README", "README.md", "markdown")>>]
      [] projectSlug = "simrikmed" ->
            [repo |-> "itisaarjan/simrikmed",
             filePatterns |->
                <<FilePattern("Main App", "src/App.jsx", "jsx"),
                  FilePattern("Service Component", "src/Components/", "jsx"),
                  FilePattern("README", "README.md", "markdown")>>]
      [] projectSlug = "wanderlust" ->
            [repo |-> "itisaarjan/wanderlust",
             filePatterns |->
                <<FilePattern("Map Component", "public/js/map.js", "javascript"),
                  FilePattern("Listing Routes", "routes/listing.js", "javascript"),
                  FilePattern("README", "README.md", "markdown")>>]
      [] projectSlug = "stock-wave-analyzer" ->
            [repo |-> "itisaarjan/Stock-Wave-Analyzer",
             filePatterns |->
                <<FilePattern("Main Application", "Proj 2/Program.cs", "csharp"),
                  FilePattern("Chart Display", "Proj 2/ChartDisplayForm.cs", "csharp"),
                  FilePattern("CandleStick Model", "Proj 2/CandleStick.cs", "csharp")>>]
      [] OTHER -> NoConfig

\* the slugs that fetchProjectSnippets is called with in the model: two of
\* the projects, and a slug that has no configuration
ProjectSlugs == {"cloudshop", "stock-wave-analyzer", "unlisted"}

NoProject == "null"

\* what happens to one file pattern: its file is loaded, the download is not
\* ok, the contents request is not ok, no file of the tree matches, or a
\* request or a parse throws
PatternOutcomes == {"loaded", "contentNotOk", "fileNotOk", "noMatch", "threw"}

\* the entry pushed for a file pattern; named: the label ends with the name
\* of the file in parentheses
PatternEntry(fp, outcome) ==
    [label |-> fp.label,
     named |-> outcome = "loaded",
     code |-> CASE outcome = "loaded" -> "the first 100 lines"
                [] outcome = "contentNotOk" -> "// Could not load content from"
                [] outcome = "fileNotOk" -> "// Could not load from GitHub"
                [] outcome = "noMatch" -> "// No files found matching pattern"
                [] outcome = "threw" -> "// Error processing pattern",
     language |-> fp.language]

\* the entry pushed by the outer catch block
ErrorEntry ==
    [label |-> "Error", named |-> FALSE, code |-> "// Failed to fetch repository data",
     language |-> "text"]

NoCall == [slug |-> "none", stored |-> <<>>, early |-> FALSE]

\* the component at its first render
ProjectsInit ==
    /\ selectedProject = NoProject
    /\ loading = FALSE
    /\ snippets = EmptyMap
    /\ fetching = <<>>
    /\ completed = NoCall

(* the two variants side by side: values *)

\* bodies whose fields are strings and whose email is well-formed or has no
\* '@': Jane's, and one with a name, an email or a message that fails
PairBodies ==
    {Jane, [Jane EXCEPT !.name = Str(1)], [Jane EXCEPT !.email = Str(16)],
     [Jane EXCEPT !.message = Str(9)]}

PairEnvs == {EnvFull, EnvNone}

NoPair == [ip |-> "ip1", now |-> -1, req |-> Jane, invalidSeen |-> FALSE]

\* neither variant has had a request
PairIdle ==
    /\ pairClock = 0
    /\ pairMaps = [express |-> EmptyMap, lambda |-> EmptyMap]
    /\ pairCodes = [express |-> <<>>, lambda |-> <<>>]
    /\ pairLast = NoPair

(* ContactSection: values *)

NoToast == "null"
ToastInvalid == "Invalid submission detected."
ToastWait == "Please wait a moment before submitting."
ToastThanks == "Thanks! I'll get back to you soon."
ToastFailed == "Failed to send message. Please try again."

\* data.company, the honeypot field: undefined, or a string by its characters
NoCompany == [def |-> FALSE, chars |-> <<>>]
Text(cs) == [def |-> TRUE, chars |-> cs]
Companies ==
    {NoCompany, Text(<<>>), Text(<<" ", " ">>), Text(<<"\t", "\n">>),
     Text(<<"b", "o", "t">>), Text(<<" ", "x", " ">>)}

RECURSIVE TrimEnd(_)
TrimEnd(s) ==
    IF s # <<>> /\ s[Len(s)] \in WhiteSpace THEN TrimEnd(SubSeq(s, 1, Len(s) - 1)) ELSE s

\* String.prototype.trim
trim(s) == TrimEnd(SkipWhiteSpace(s))

\* the honeypot test without the trim
honeypot_NoTrim(company) == company.def /\ Len(company.chars) > 0

\* `data.company && data.company.trim().length > 0`
honeypot(company) ==
    company.def /\ Len(company.chars) > 0 /\ Len(trim(company.chars)) > 0

\* `submitTime && Date.now() - submitTime < 500`: null and 0 are falsy
tooEarly(st, now) == st # -1 /\ st # 0 /\ now - st < 500

\* the page is loaded at one of these times, and onSubmit runs at a quarter
\* of a second steps around 500 ms and around 1500 ms after the mount
MountTimes == {0, 1000}
FormTimes == {m + d : m \in MountTimes, d \in {0, 499, 500, 1499, 1500}}

NoSubmit ==
    [at |-> -1, since |-> -1, company |-> NoCompany, wasSubmitting |-> FALSE,
     isSubmitting |-> FALSE, toast |-> NoToast, called |-> FALSE]

\* what emailjs.send does: it resolves with status 200 or with another
\* status, or it rejects
SendResults == {"status200", "status400", "rejected"}

NoSettle ==
    [result |-> "none", isSubmitting |-> FALSE, toast |-> NoToast,
     fieldsBefore |-> "empty", fieldsAfter |-> "empty"]

\* the component at its first render, with the browser clock at t
FormInit(t) ==
    /\ browserNow = t
    /\ submitTime = -1
    /\ isSubmitting = FALSE
    /\ toast = NoToast
    /\ sending = 0
    /\ submitted = NoSubmit
    /\ rendered = FALSE
    /\ fields = "empty"
    /\ settled = NoSettle

\* the processes that run the handler side by side, each with the module-level
\* Map of its own memory
Instances == {"i1", "i2"}


\* "validation": one request, with every combination of field values;
\* "limiter": two identifiers, few bodies and environments, for the timing
\* of the rate limiter; "pipeline": one identifier, every body and
\* environment, for validation, configuration and dispatch; "instances": two
\* instances that start and restart, one identifier
Scopes == {"limiter", "pipeline", "instances", "validation"}
ScopeIds == IF scope = "limiter" THEN Ids ELSE {"ip1"}
ScopeInstances == IF scope = "instances" THEN Instances ELSE {"i1"}
ScopeBodies(bodies) ==
    CASE scope = "limiter" -> {Jane, [Jane EXCEPT !.name = Str(1)]}
      [] scope = "instances" -> {Jane}
      [] scope = "validation" -> ValidationBodies
      [] OTHER -> bodies
ScopeEnvs ==
    CASE scope = "limiter" -> {EnvFull, EnvNone}
      [] scope \in {"instances", "validation"} -> {EnvFull}
      [] OTHER -> EnvChoices
ScopeMethods == IF scope = "pipeline" THEN Methods ELSE {"POST"}
ScopeOrigins == IF scope = "pipeline" THEN AllowedOrigins ELSE {Unset}
ScopeTimes ==
    IF scope = "limiter"
    THEN TimePoints
    ELSE {1, RATE_LIMIT_WINDOW - 1, RATE_LIMIT_WINDOW + 1} \cap TimePoints
ScopeInFlight == IF scope = "limiter" THEN 1 ELSE MaxInFlight

\* history of one identifier: the time and the final status (0: none yet) of
\* its latest admitted request, and what it has sent since then
Hist0 == [at |-> -1, status |-> 0, since |-> "nothing"]

\* the history of an identifier after its request handled at time now with result res
Recorded(h, now, res) ==
    IF res.limiter = "admit"
    THEN [at |-> now, status |-> res.status, since |-> "nothing"]
    ELSE [h EXCEPT !.since = IF res.limiter = "reject" /\ h.since # "other"
                             THEN "rejects" ELSE "other"]

\* what is kept of a handled request: the instance that served it, the
\* request, the history of its identifier before it (in this instance: h, in
\* any instance: prev), whether it changed the map, and the result
Entry(phase, inst, method, ip, now, req, h, prev, wrote, res) ==
    [phase |-> phase, inst |-> inst, method |-> method, ip |-> ip, now |-> now, req |-> req,
     h |-> h, prev |-> prev, wrote |-> wrote,
     res |-> [f \in (DOMAIN res) \ {"map"} |-> res[f]]]

Init ==
    /\ scope \in Scopes
    /\ variant \in {"express", "lambda"}
    /\ clock \in ScopeTimes
    /\ rateLimitMap = [i \in Instances |-> EmptyMap]
    /\ pending = <<>>
    /\ last = Entry("none", "i1", "POST", "ip1", 0, NoFields("absent"), Hist0, -1, FALSE,
                    Res0(EmptyMap))
    /\ hist = [i \in Instances |-> [ip \in Ids |-> Hist0]]
    /\ admittedAt = [ip \in Ids |-> -1]
    /\ FormInit(0)
    /\ InfraIdle
    /\ PairIdle
    /\ ProjectsInit

\* the wall clock advances
Tick ==
    /\ \E t \in ScopeTimes : t > clock /\ clock' = t
    /\ UNCHANGED <<scope, variant, rateLimitMap, pending, last, hist, admittedAt>>
    /\ UNCHANGED nonServerVars

\* a restart that keeps the Map of the process that went away
ColdStart_KeepsMap ==
    /\ scope = "instances"
    /\ \E inst \in ScopeInstances :
          /\ \A i \in 1..Len(pending) : pending[i].inst # inst
          /\ hist[inst] # [ip \in Ids |-> Hist0]
          /\ hist' = [hist EXCEPT ![inst] = [ip \in Ids |-> Hist0]]
    /\ UNCHANGED <<scope, variant, clock, rateLimitMap, pending, last, admittedAt>>
    /\ UNCHANGED nonServerVars

\* an idle instance goes away and a new one starts (Lambda cold start, restart
\* of the server process): the module is loaded again and `new Map()` runs
ColdStart ==
    /\ scope = "instances"
    /\ \E inst \in ScopeInstances :
          /\ \A i \in 1..Len(pending) : pending[i].inst # inst
          /\ hist[inst] # [ip \in Ids |-> Hist0]
          /\ rateLimitMap' = [rateLimitMap EXCEPT ![inst] = EmptyMap]
          /\ hist' = [hist EXCEPT ![inst] = [ip \in Ids |-> Hist0]]
    /\ UNCHANGED <<scope, variant, clock, pending, last, admittedAt>>
    /\ UNCHANGED nonServerVars

\* the synchronous part of one request on one instance: everything up to the
\* response or to the awaited sendMail
Handle(inst, method, ip, req, res) ==
    /\ res.status = 0 => Len(pending) < ScopeInFlight
    /\ rateLimitMap' = [rateLimitMap EXCEPT ![inst] = res.map]
    /\ last' = Entry(IF res.status = 0 THEN "awaiting" ELSE "responded",
                     inst, method, ip, clock, req, hist[inst][ip], admittedAt[ip],
                     res.map # rateLimitMap[inst], res)
    /\ pending' = IF res.status = 0
                  THEN Append(pending, [last' EXCEPT !.h = Hist0, !.prev = -1])
                  ELSE pending
    /\ hist' = [hist EXCEPT ![inst][ip] = Recorded(hist[inst][ip], clock, res)]
    /\ admittedAt' = IF res.limiter = "admit"
                     THEN [admittedAt EXCEPT ![ip] = clock] ELSE admittedAt
    /\ UNCHANGED <<scope, variant, clock>>
    /\ UNCHANGED nonServerVars

\* in the validation scope a behaviour has one request
Open == scope = "validation" => last.phase = "none"

\* the environments and factory behaviours to try for a request: all of
\* them when the handler reads them, one when it does not
EnvsRead(probe) == IF probe.envRead = NotRead THEN {EnvFull} ELSE ScopeEnvs
FactoriesRead(probe) ==
    IF probe.envRead = NotRead \/ scope \in {"instances", "validation"}
    THEN {"created"} ELSE FactoryBehaviours

\* POST / on the Express server
ExpressPost ==
    /\ variant = "express"
    /\ Open
    /\ \E inst \in ScopeInstances, ip \in ScopeIds, req \in ScopeBodies(ExpressBodies) :
          LET probe == rateLimit(req, ip, clock, EnvFull, "created", rateLimitMap[inst]) IN
          \E env \in EnvsRead(probe), tb \in FactoriesRead(probe) :
              LET res == rateLimit(req, ip, clock, env, tb, rateLimitMap[inst]) IN
              /\ res.transport = "notreached" => tb = "created"
              /\ Handle(inst, "POST", ip, req, res)

\* one invocation of the Lambda, for a POST or for a preflight request; an
\* instance serves one event at a time
LambdaPost ==
    /\ variant = "lambda"
    /\ Open
    /\ \E inst \in ScopeInstances, method \in ScopeMethods, ip \in ScopeIds,
          req \in ScopeBodies(LambdaBodies) :
          /\ \A i \in 1..Len(pending) : pending[i].inst # inst
          /\ LET probe == exportsHandler(method, req, ip, clock, WithOrigin(EnvFull, Unset),
                                         "created", rateLimitMap[inst])
             IN
             \E env \in EnvsRead(probe), tb \in FactoriesRead(probe), origin \in ScopeOrigins :
                 LET res == exportsHandler(method, req, ip, clock, WithOrigin(env, origin), tb,
                                           rateLimitMap[inst])
                 IN
                 /\ res.transport = "notreached" => tb = "created"
                 /\ Handle(inst, method, ip, req, res)

\* the promise of sendMail settles and the suspended handler finishes
Settle ==
    \E i \in 1..Len(pending), outcome \in SendOutcomes :
        LET e == pending[i]
            res == afterSend(e.res, outcome)
        IN
        /\ last' = [e EXCEPT !.phase = "settled", !.res = res]
        /\ pending' = SubSeq(pending, 1, i - 1) \o SubSeq(pending, i + 1, Len(pending))
        /\ hist' = [hist EXCEPT ![e.inst][e.ip] =
                        IF @.at = e.now /\ @.status = 0 THEN [@ EXCEPT !.status = res.status] ELSE @]
        /\ UNCHANGED <<scope, variant, clock, rateLimitMap, admittedAt>>
        /\ UNCHANGED nonServerVars

Next == Tick \/ ColdStart \/ ExpressPost \/ LambdaPost \/ Settle

Spec == Init /\ [][Next]_vars

(* --------------------------- ContactSection --------------------------- *)

\* the page with the contact form is loaded; no server of the model runs
InitForm ==
    /\ scope = "form"
    /\ variant = "express"
    /\ clock = 0
    /\ rateLimitMap = [i \in Instances |-> EmptyMap]
    /\ pending = <<>>
    /\ last = Entry("none", "i1", "POST", "ip1", 0, NoFields("absent"), Hist0, -1, FALSE,
                    Res0(EmptyMap))
    /\ hist = [i \in Instances |-> [ip \in Ids |-> Hist0]]
    /\ admittedAt = [ip \in Ids |-> -1]
    /\ \E t \in MountTimes : FormInit(t)
    /\ InfraIdle
    /\ PairIdle
    /\ ProjectsInit

\* the effect that runs once after the first render: setSubmitTime(Date.now())
Mount ==
    /\ submitTime = -1
    /\ submitTime' = browserNow
    /\ UNCHANGED <<browserNow, isSubmitting, toast, sending, submitted, rendered, fields,
                   settled>>
    /\ UNCHANGED nonFormVars

\* the clock of the browser advances
FormTick ==
    /\ \E t \in FormTimes : t > browserNow /\ browserNow' = t
    /\ UNCHANGED <<submitTime, isSubmitting, toast, sending, submitted, rendered, fields,
                   settled>>
    /\ UNCHANGED nonFormVars

\* React renders the component again after a state update: the inputs and
\* the submit button get disabled={isSubmitting}
Render ==
    /\ rendered # isSubmitting
    /\ rendered' = isSubmitting
    /\ UNCHANGED <<browserNow, submitTime, isSubmitting, toast, sending, submitted, fields,
                   settled>>
    /\ UNCHANGED nonFormVars

\* the visitor fills in the inputs, which are not disabled, with values that
\* pass contactSchema
Type ==
    /\ ~rendered
    /\ fields = "empty"
    /\ fields' = "filled"
    /\ UNCHANGED <<browserNow, submitTime, isSubmitting, toast, sending, submitted, rendered,
                   settled>>
    /\ UNCHANGED nonFormVars

\* a submit event of the form, which the DOM fires while the button is not
\* disabled: onSubmit(data) up to its return or to the awaited emailjs.send;
\* the fields other than the honeypot have passed the resolver of handleSubmit
Submit ==
    /\ submitTime # -1
    /\ ~rendered
    /\ fields = "filled"
    /\ \E company \in Companies :
          LET blocked == honeypot(company)
              early == ~blocked /\ tooEarly(submitTime, browserNow)
              goes == ~blocked /\ ~early
          IN
          /\ goes => sending < MaxSending
          /\ toast' = IF blocked THEN ToastInvalid ELSE IF early THEN ToastWait ELSE NoToast
          /\ isSubmitting' = IF goes THEN TRUE ELSE isSubmitting
          /\ sending' = IF goes THEN sending + 1 ELSE sending
          /\ submitted' = [at |-> browserNow, since |-> submitTime, company |-> company,
                           wasSubmitting |-> isSubmitting, isSubmitting |-> isSubmitting',
                           toast |-> toast', called |-> goes]
    /\ UNCHANGED <<browserNow, submitTime, rendered, fields, settled>>
    /\ UNCHANGED nonFormVars

\* a settle whose finally block is skipped when the send rejects
SendSettles_NoFinally ==
    /\ sending > 0
    /\ \E result \in SendResults :
          /\ toast' = IF result = "status200" THEN ToastThanks ELSE ToastFailed
          /\ fields' = IF result = "status200" THEN "empty" ELSE fields
          /\ isSubmitting' = IF result = "rejected" THEN isSubmitting ELSE FALSE
          /\ settled' = [result |-> result, isSubmitting |-> isSubmitting', toast |-> toast',
                         fieldsBefore |-> fields, fieldsAfter |-> fields']
    /\ sending' = sending - 1
    /\ UNCHANGED <<browserNow, submitTime, submitted, rendered>>
    /\ UNCHANGED nonFormVars

\* the promise of emailjs.send settles: status 200 (success toast and
\* reset()), another status, or a rejection; then the finally block
SendSettles ==
    /\ sending > 0
    /\ \E result \in SendResults :
          /\ toast' = IF result = "status200" THEN ToastThanks ELSE ToastFailed
          /\ fields' = IF result = "status200" THEN "empty" ELSE fields
          /\ settled' = [result |-> result, isSubmitting |-> FALSE, toast |-> toast',
                         fieldsBefore |-> fields, fieldsAfter |-> fields']
    /\ isSubmitting' = FALSE
    /\ sending' = sending - 1
    /\ UNCHANGED <<browserNow, submitTime, submitted, rendered>>
    /\ UNCHANGED nonFormVars

NextForm == Mount \/ FormTick \/ Render \/ Type \/ Submit \/ SendSettles

SpecForm == InitForm /\ [][NextForm]_vars

(* -------------------- the two variants side by side ------------------- *)

\* an Express process and a Lambda process start with empty Maps and are sent
\* the same requests at the same times
InitPair ==
    /\ scope = "pair"
    /\ variant = "express"
    /\ clock = 0
    /\ rateLimitMap = [i \in Instances |-> EmptyMap]
    /\ pending = <<>>
    /\ last = Entry("none", "i1", "POST", "ip1", 0, NoFields("absent"), Hist0, -1, FALSE,
                    Res0(EmptyMap))
    /\ hist = [i \in Instances |-> [ip \in Ids |-> Hist0]]
    /\ admittedAt = [ip \in Ids |-> -1]
    /\ FormInit(0)
    /\ InfraIdle
    /\ pairClock \in TimePoints
    /\ pairMaps = [express |-> EmptyMap, lambda |-> EmptyMap]
    /\ pairCodes = [express |-> <<>>, lambda |-> <<>>]
    /\ pairLast = NoPair
    /\ ProjectsInit

\* the clock both processes read advances
PairTick ==
    /\ \E t \in TimePoints : t > pairClock /\ pairClock' = t
    /\ UNCHANGED <<pairMaps, pairCodes, pairLast>>
    /\ UNCHANGED nonPairVars

\* a handler run to its response: the awaited sendMail settles with the outcome
Complete(res, outcome) == IF res.status = 0 THEN afterSend(res, outcome) ELSE res

\* the same POST goes to both variants, in the same environment and with the
\* same behaviour of the transport, and each runs to its response
PairPost ==
    /\ Len(pairCodes.express) < MaxRequests
    /\ \E ip \in Ids, req \in PairBodies, env \in PairEnvs, tb \in FactoryBehaviours,
          outcome \in SendOutcomes :
          LET e == Complete(rateLimit(req, ip, pairClock, env, tb, pairMaps.express), outcome)
              l == Complete(exportsHandler("POST", req, ip, pairClock, WithOrigin(env, Unset),
                                           tb, pairMaps.lambda), outcome)
          IN
          /\ pairMaps' = [express |-> e.map, lambda |-> l.map]
          /\ pairCodes' = [express |-> Append(pairCodes.express, e.status),
                           lambda |-> Append(pairCodes.lambda, l.status)]
          /\ pairLast' = [ip |-> ip, now |-> pairClock, req |-> req,
                          invalidSeen |-> pairLast.invalidSeen \/ ~contactSchema(req)]
    /\ UNCHANGED pairClock
    /\ UNCHANGED nonPairVars

NextPair == PairTick \/ PairPost

SpecPair == InitPair /\ [][NextPair]_vars

(* ------------------------------ Projects ------------------------------ *)

\* the Projects component is rendered; "shape": one call at a time, with every
\* outcome of a file pattern; "overlap": calls that run at the same time
InitProjects ==
    /\ scope \in {"shape", "overlap"}
    /\ variant = "express"
    /\ clock = 0
    /\ rateLimitMap = [i \in Instances |-> EmptyMap]
    /\ pending = <<>>
    /\ last = Entry("none", "i1", "POST", "ip1", 0, NoFields("absent"), Hist0, -1, FALSE,
                    Res0(EmptyMap))
    /\ hist = [i \in Instances |-> [ip \in Ids |-> Hist0]]
    /\ admittedAt = [ip \in Ids |-> -1]
    /\ FormInit(0)
    /\ InfraIdle
    /\ PairIdle
    /\ ProjectsInit

ScopeFetching == IF scope = "overlap" THEN MaxFetching ELSE 1
ScopeOutcomes(slug) ==
    IF scope = "shape" /\ slug = "cloudshop" THEN PatternOutcomes
    ELSE {"loaded"}

\* handleProjectClick on a card, which the modal covers while it is open:
\* setSelectedProject, then fetchProjectSnippets up to its first await
HandleProjectClick ==
    /\ selectedProject = NoProject
    /\ \E slug \in ProjectSlugs :
          /\ selectedProject' = slug
          /\ IF getProjectConfig(slug) = NoConfig
             THEN UNCHANGED <<loading, fetching>>
             ELSE /\ Len(fetching) < ScopeFetching
                  /\ loading' = TRUE
                  /\ fetching' = Append(fetching, [slug |-> slug, at |-> "commit",
                                                   projectSnippets |-> <<>>])
    /\ UNCHANGED <<snippets, completed>>
    /\ UNCHANGED nonProjectsVars

\* handleCloseModal; the calls that are suspended go on
HandleCloseModal ==
    /\ selectedProject # NoProject
    /\ selectedProject' = NoProject
    /\ UNCHANGED <<loading, snippets, fetching, completed>>
    /\ UNCHANGED nonProjectsVars

Without(seq, i) == SubSeq(seq, 1, i - 1) \o SubSeq(seq, i + 1, Len(seq))

\* the end of a call: the finally block, then setSnippets with the entries
Return(i, projectSnippets, early) ==
    /\ loading' = FALSE
    /\ snippets' = MapSet(snippets, fetching[i].slug, projectSnippets)
    /\ fetching' = Without(fetching, i)
    /\ completed' = [slug |-> fetching[i].slug, stored |-> projectSnippets, early |-> early]

\* the request for the latest commit settles: an ok response with a body
\* that parses, or a failure that the outer catch block handles
CommitReturns ==
    /\ \E i \in 1..Len(fetching), ok \in BOOLEAN :
          /\ fetching[i].at = "commit"
          /\ IF ok
             THEN /\ fetching' = [fetching EXCEPT ![i].at = "tree"]
                  /\ UNCHANGED <<loading, snippets, completed>>
             ELSE Return(i, Append(fetching[i].projectSnippets, ErrorEntry), TRUE)
    /\ UNCHANGED selectedProject
    /\ UNCHANGED nonProjectsVars

\* the request for the tree settles; the loop starts with the first pattern
TreeReturns ==
    /\ \E i \in 1..Len(fetching), ok \in BOOLEAN :
          /\ fetching[i].at = "tree"
          /\ IF ok
             THEN /\ fetching' = [fetching EXCEPT ![i].at = "patterns"]
                  /\ UNCHANGED <<loading, snippets, completed>>
             ELSE Return(i, Append(fetching[i].projectSnippets, ErrorEntry), TRUE)
    /\ UNCHANGED selectedProject
    /\ UNCHANGED nonProjectsVars

\* a loop without the inner try: what a pattern throws gets to the outer catch
PatternDone_NoInnerCatch ==
    /\ \E i \in 1..Len(fetching) :
          LET f == fetching[i]
              patterns == getProjectConfig(f.slug).filePatterns
              fp == patterns[Len(f.projectSnippets) + 1]
          IN
          /\ f.at = "patterns"
          /\ \E outcome \in ScopeOutcomes(f.slug) :
                LET pushed == Append(f.projectSnippets, PatternEntry(fp, outcome)) IN
                IF outcome = "threw"
                THEN Return(i, Append(f.projectSnippets, ErrorEntry), FALSE)
                ELSE IF Len(pushed) = Len(patterns)
                THEN Return(i, pushed, FALSE)
                ELSE /\ fetching' = [fetching EXCEPT ![i].projectSnippets = pushed]
                     /\ UNCHANGED <<loading, snippets, completed>>
    /\ UNCHANGED selectedProject
    /\ UNCHANGED nonProjectsVars

\* one turn of the loop over config.filePatterns, with its requests: one entry
\* is pushed; after the last pattern the call returns
PatternDone ==
    /\ \E i \in 1..Len(fetching) :
          LET f == fetching[i]
              patterns == getProjectConfig(f.slug).filePatterns
              fp == patterns[Len(f.projectSnippets) + 1]
          IN
          /\ f.at = "patterns"
          /\ \E outcome \in ScopeOutcomes(f.slug) :
                LET pushed == Append(f.projectSnippets, PatternEntry(fp, outcome)) IN
                IF Len(pushed) = Len(patterns)
                THEN Return(i, pushed, FALSE)
                ELSE /\ fetching' = [fetching EXCEPT ![i].projectSnippets = pushed]
                     /\ UNCHANGED <<loading, snippets, completed>>
    /\ UNCHANGED selectedProject
    /\ UNCHANGED nonProjectsVars

NextProjects ==
    HandleProjectClick \/ HandleCloseModal \/ CommitReturns \/ TreeReturns \/ PatternDone

SpecProjects == InitProjects /\ [][NextProjects]_vars

(* -------------------------- CDK infrastructure ------------------------ *)

\* deploy.sh is started with a command line in an environment; no server and
\* no page of the model runs
InitInfra ==
    /\ scope = "infra"
    /\ variant = "express"
    /\ clock = 0
    /\ rateLimitMap = [i \in Instances |-> EmptyMap]
    /\ pending = <<>>
    /\ last = Entry("none", "i1", "POST", "ip1", 0, NoFields("absent"), Hist0, -1, FALSE,
                    Res0(EmptyMap))
    /\ hist = [i \in Instances |-> [ip \in Ids |-> Hist0]]
    /\ admittedAt = [ip \in Ids |-> -1]
    /\ FormInit(0)
    /\ argv \in ArgLists
    /\ shellVars \in Environments
    /\ cdkContext \in Contexts
    /\ deployPc = "parse"
    /\ stack = NoStack
    /\ PairIdle
    /\ ProjectsInit

\* one turn of the `while [[ $# -gt 0 ]]` loop; under `set -e` a `shift 2`
\* with one parameter left ends the script after the assignment
ParseArg ==
    /\ deployPc = "parse"
    /\ argv # <<>>
    /\ LET opt == Option(Head(argv))
           value == IF Len(argv) >= 2 THEN argv[2] ELSE ""
       IN
       CASE opt \in {"help", "unknown"} ->
                /\ deployPc' = "exit"
                /\ UNCHANGED <<argv, shellVars>>
         [] opt = "ENABLE_CLOUDFRONT" ->
                /\ shellVars' = Assign(shellVars, opt, "true", TRUE)
                /\ argv' = Tail(argv)
                /\ UNCHANGED deployPc
         [] opt = "DESTROY" ->
                /\ shellVars' = Assign(shellVars, opt, "true", TRUE)
                /\ argv' = Tail(argv)
                /\ UNCHANGED deployPc
         [] OTHER ->
                /\ shellVars' = Assign(shellVars, opt, value, TRUE)
                /\ argv' = IF Len(argv) >= 2 THEN Tail(Tail(argv)) ELSE argv
                /\ deployPc' = IF Len(argv) >= 2 THEN "parse" ELSE "exit"
    /\ UNCHANGED <<cdkContext, stack>>
    /\ UNCHANGED nonInfraVars

\* main: the prerequisites, the build and the bootstrap pass or end the script;
\* then `cdk destroy`, or deploy_infrastructure up to its call of `cdk deploy`
Main ==
    /\ deployPc = "parse"
    /\ argv = <<>>
    /\ \E prepared \in BOOLEAN :
          IF ~prepared
          THEN deployPc' = "exit" /\ UNCHANGED shellVars
          ELSE IF shellVars["DESTROY"].value = "true"
          THEN deployPc' = "destroy" /\ UNCHANGED shellVars
          ELSE
            /\ deployPc' = "deploy"
            /\ shellVars' =
                 LET a == Assign(shellVars, "BUCKET_NAME",
                                 OrDefault(shellVars, "BUCKET_NAME", "arjan-subedi-portfolio"), FALSE)
                     b == Assign(a, "GITHUB_USERNAME",
                                 OrDefault(a, "GITHUB_USERNAME", "itisaarjan"), FALSE)
                     c == Assign(b, "GITHUB_REPO_NAME",
                                 OrDefault(b, "GITHUB_REPO_NAME", "FullTimePortfolio"), FALSE)
                     d == Assign(c, "DOMAIN_NAME", OrDefault(c, "DOMAIN_NAME", ""), FALSE)
                 IN Assign(d, "ENABLE_CLOUDFRONT", OrDefault(d, "ENABLE_CLOUDFRONT", "false"), FALSE)
    /\ UNCHANGED <<argv, cdkContext, stack>>
    /\ UNCHANGED nonInfraVars

\* `cdk deploy` runs bin/portfolio-infrastructure.ts as a child process, which
\* builds the stack of the checked-out version
App ==
    /\ deployPc = "deploy"
    /\ \E version \in StackVersions :
          stack' = PortfolioInfrastructureStack(version,
                                                AppProps(cdkContext, processEnv(shellVars)))
    /\ deployPc' = "deployed"
    /\ UNCHANGED <<argv, shellVars, cdkContext>>
    /\ UNCHANGED nonInfraVars

NextInfra == ParseArg \/ Main \/ App

SpecInfra == InitInfra /\ [][NextInfra]_vars

(* ----------------------------- properties ----------------------------- *)

\* last is a submission (POST) as its handler's synchronous part left it
IsRequest == last.method = "POST" /\ last.phase \in {"awaiting", "responded"}

\* last is a submission (POST) that has been answered
Answered == last.method = "POST" /\ last.phase \in {"responded", "settled"}

\* the six variables the spec requires, none absent or empty
EnvComplete(env) ==
    \A v \in {"SMTP_HOST", "SMTP_PORT", "SMTP_USER", "SMTP_PASS", "CONTACT_TO_EMAIL", "FROM_EMAIL"} :
        env[v] \notin {Unset, "", "notread"}

\* a submission that meets the rules of the Input Validator
ValidSubmission(req) ==
    /\ req.raw = "object"
    /\ req.name.t = "string" /\ req.name.n \in 2..80
    /\ req.email.t = "string" /\ req.email.wf
    /\ req.message.t = "string" /\ req.message.n \in 10..2000

\* malformed client input: text that is not JSON, a missing field, or a
\* field that is not a string
Malformed(req) ==
    \/ req.raw = "unparseable"
    \/ /\ req.raw \in {"object", "absent"}
       /\ \E f \in {"name", "email", "message"} : req[f].t # "string"

\* C1: two admitted requests of one identifier are at least 10,000 ms apart:
\* every admitted request comes at least RATE_LIMIT_WINDOW after the
\* identifier's previous admitted request
C1_Separation ==
    (IsRequest /\ last.res.limiter = "admit" /\ last.h.at # -1)
        => last.now - last.h.at >= RATE_LIMIT_WINDOW

\* C2: when a request at t was admitted and the identifier's next request
\* comes at exactly t + 10000, the rate limiter does not reject it: it is
\* admitted when it reaches the limiter and is never answered 429
C2_WindowBoundary ==
    (IsRequest /\ last.h.at # -1 /\ last.h.since = "nothing"
        /\ last.now = last.h.at + RATE_LIMIT_WINDOW)
        => /\ last.res.limiter # "reject"
           /\ last.res.status # 429
           /\ last.res.validated = "pass" => (last.res.limiter = "admit" /\ last.wrote)

C2_Witness ==
    /\ IsRequest /\ last.h.at > 0 /\ last.h.since = "nothing"
    /\ last.now = last.h.at + RATE_LIMIT_WINDOW
    /\ last.res.limiter = "admit"

\* C3: a request whose body fails validation is answered 400 and neither
\* reads nor writes the rate-limit map
C3_StageOrder ==
    (IsRequest /\ last.res.validated = "fail")
        => /\ last.res.status = 400
           /\ last.res.limiter = "skipped"
           /\ ~last.wrote

\* C4: sendMail is called only for a request that passed validation, was
\* admitted and found the six variables; a request answered 400, 429 or with
\* the configuration error made no sendMail call
C4_DispatcherGating ==
    /\ last.res.sendCalls > 0 =>
          /\ last.res.validated = "pass"
          /\ last.res.limiter = "admit"
          /\ EnvComplete(last.res.envRead)
    /\ (Answered /\ (last.res.status \in {400, 429} \/ last.res.text = MsgNotConfigured))
          => last.res.sendCalls = 0

C4_Witness ==
    /\ last.phase = "awaiting" /\ last.res.sendCalls = 1
    /\ last.res.validated = "pass" /\ last.res.limiter = "admit"

\* C5: a valid, admitted submission with a complete environment and a
\* transport whose send succeeds is answered 200 {success:true, 'Message sent
\* successfully'} after exactly one sendMail whose replyTo is the submitted
\* email and whose subject carries the submitted name
C5_RoundTrip ==
    /\ (IsRequest /\ ValidSubmission(last.req) /\ last.res.limiter = "admit"
            /\ EnvComplete(last.res.envRead) /\ last.res.transport = "created")
          => (last.phase = "awaiting" /\ last.res.sendCalls = 1)
    /\ (last.phase = "settled" /\ ValidSubmission(last.req) /\ last.res.transport = "sendOk")
          => /\ last.res.status = 200
             /\ last.res.success
             /\ last.res.text = MsgSent
             /\ last.res.sendCalls = 1
             /\ last.res.mail.replyTo = last.req.email
             /\ last.res.mail.subjectName = last.req.name

C5_Witness ==
    /\ last.phase = "settled" /\ last.req = Jane /\ last.res.transport = "sendOk"
    /\ last.res.status = 200 /\ last.res.mail.replyTo = Jane.email

\* C6: a valid, admitted submission always gets to the environment check, and
\* when one of the six variables is absent or empty it is answered 500 with
\* the configuration error, no transport is created and nothing is sent
C6_MissingConfiguration ==
    (IsRequest /\ ValidSubmission(last.req) /\ last.res.limiter = "admit")
        => /\ last.res.envRead # NotRead
           /\ ~EnvComplete(last.res.envRead)
                => /\ last.phase = "responded"
                   /\ last.res.status = 500
                   /\ ~last.res.success
                   /\ last.res.text = MsgNotConfigured
                   /\ ~last.res.created
                   /\ last.res.sendCalls = 0

C6_Witness ==
    /\ IsRequest /\ last.req = Jane /\ last.res.limiter = "admit"
    /\ last.res.envRead = [EnvFull EXCEPT !["SMTP_PASS"] = ""]
    /\ last.res.status = 500

\* C7: when sendMail rejects, the answer is 500 with exactly the fixed body,
\* not the text of the error, and sendMail was called once
C7_TransportFailure ==
    (last.phase = "settled" /\ last.res.transport = "sendThrows")
        => /\ last.res.status = 500
           /\ ~last.res.success
           /\ last.res.text = MsgFailedToSend
           /\ last.res.thrown = TransportErrorText
           /\ last.res.text # last.res.thrown
           /\ last.res.sendCalls = 1

C7_Witness ==
    /\ last.phase = "settled" /\ last.res.transport = "sendThrows"
    /\ last.res.status = 500 /\ last.req = Jane

\* C8: malformed client input is answered 400 {success:false, error}, never
\* with 'Failed to send email', and never after the map was written
C8_MalformedIs400 ==
    (Answered /\ Malformed(last.req))
        => /\ last.res.status = 400
           /\ ~last.res.success
           /\ last.res.text # MsgFailedToSend
           /\ ~last.wrote

\* C9: after a request admitted at t has ended in a 500, a request of the
\* same identifier before t + 10000 that reaches the limiter is rejected 429
C9_NoRefund ==
    (IsRequest /\ last.res.limiter # "skipped"
        /\ last.h.at # -1 /\ last.h.status = 500
        /\ last.now < last.h.at + RATE_LIMIT_WINDOW)
        => (last.res.limiter = "reject" /\ last.res.status = 429)

\* C10: a rejected request leaves the map as it was, and after an admission
\* at t followed only by rejected requests, the request at t + 10000 is admitted
C10_RejectKeepsWindow ==
    /\ (IsRequest /\ last.res.limiter = "reject") => ~last.wrote
    /\ (IsRequest /\ last.res.limiter # "skipped"
            /\ last.h.at # -1 /\ last.h.since = "rejects"
            /\ last.now = last.h.at + RATE_LIMIT_WINDOW)
          => (last.res.limiter = "admit" /\ last.wrote)

C10_Witness ==
    /\ IsRequest /\ last.res.limiter = "admit"
    /\ last.h.at # -1 /\ last.h.since = "rejects"
    /\ last.now = last.h.at + RATE_LIMIT_WINDOW

\* C11: a request makes at most one sendMail call: none when it is answered
\* 400, 429 or with the configuration error, one when no stage rejected it
\* and the handler built the mail, and a settled send, rejected or not, is
\* not followed by another
C11_AtMostOneSend ==
    /\ last.res.sendCalls \in {0, 1}
    /\ \A i \in 1..Len(pending) : pending[i].res.sendCalls = 1
    /\ (last.phase \in {"awaiting", "settled"}) <=> (last.res.sendCalls = 1)
    /\ (last.res.status \in {400, 429} \/ last.res.text = MsgNotConfigured)
          => (last.phase = "responded" /\ last.res.sendCalls = 0)
    /\ (IsRequest /\ last.res.validated = "pass" /\ last.res.limiter = "admit"
            /\ EnvComplete(last.res.envRead) /\ last.res.created
            /\ last.req.message.t = "string")
          => last.res.sendCalls = 1

C11_Witness ==
    /\ last.phase = "settled" /\ last.res.transport = "sendThrows"
    /\ last.res.sendCalls = 1 /\ last.res.status = 500

\* the requests that were suspended at sendMail when last was handled
Earlier ==
    IF last.phase = "awaiting" THEN SubSeq(pending, 1, Len(pending) - 1) ELSE pending

Isolated ==
    \A i \in Instances :
        (last' # last /\ last'.inst = i)
            => \A j \in Instances \ {i} : rateLimitMap'[j] = rateLimitMap[j]

\* C13: the Map of an instance holds only what the instance has admitted
\* since it started; the first request of an identifier that gets to the
\* limiter of an instance is admitted, however recently another instance, or
\* this one before a restart, admitted the identifier; and a request served
\* by one instance never changes the Map of another
C13_PerInstance ==
    /\ [](\A i \in Instances, ip \in Ids :
            ip \in DOMAIN rateLimitMap[i] => hist[i][ip].at # -1)
    /\ []((IsRequest /\ last.res.limiter # "skipped" /\ last.h.at = -1)
            => (last.res.limiter = "admit" /\ last.res.seen = -1))
    /\ [][Isolated]_vars

C13_Witness ==
    /\ IsRequest /\ last.res.limiter = "admit" /\ last.h.at = -1
    /\ last.prev > 0 /\ last.now > last.prev
    /\ last.now - last.prev < RATE_LIMIT_WINDOW
    /\ hist[CHOOSE j \in Instances : j # last.inst]["ip1"].at = last.prev

\* C14: a preflight request to the Lambda, whatever its body, its source and
\* the state of the map, is answered 200 with the body '' and the four CORS
\* headers; nothing is validated, the map is neither read nor written, the
\* environment is not read and no mail is sent
C14_Preflight ==
    (last.phase # "none" /\ last.method = "OPTIONS")
        => /\ last.phase = "responded"
           /\ last.res.status = 200
           /\ last.res.text = ""
           /\ DOMAIN last.res.headers = CorsHeaders
           /\ Cardinality(DOMAIN last.res.headers) = 4
           /\ last.res.validated = "skipped"
           /\ last.res.limiter = "skipped" /\ last.res.seen = Unread /\ ~last.wrote
           /\ last.res.envRead = NotRead
           /\ ~last.res.created /\ last.res.sendCalls = 0

C14_Witness ==
    /\ last.method = "OPTIONS" /\ last.res.status = 200
    /\ last.req.raw = "unparseable"
    /\ last.h.at > 0 /\ last.now - last.h.at < RATE_LIMIT_WINDOW

\* the first check of the Lambda's validation that a body fails, in the order
\* of the code: a missing or empty field, the length of the name, the '@' of
\* the email (a TypeError when the email is a number), the length of the message
LambdaVerdict(req) ==
    CASE ~Truthy(req.name) \/ ~Truthy(req.email) \/ ~Truthy(req.message) -> MsgMissingFields
      [] OTHER ->
         CASE req.name.t = "string" /\ (req.name.n < 2 \/ req.name.n > 80) -> MsgNameLength
           [] OTHER ->
              CASE req.email.t # "string" -> MsgFailedToSend
                [] OTHER ->
                   CASE ~req.email.at -> MsgEmailInvalid
                     [] OTHER -> MsgMessageLength

NameOutOfRange(req) ==
    req.raw = "object" /\ req.name.t = "string" /\ (req.name.n < 2 \/ req.name.n > 80)

MessageOutOfRange(req) ==
    req.raw = "object" /\ req.message.t = "string"
        /\ (req.message.n < 10 \/ req.message.n > 2000)

\* what the Express route answers to a body that its schema does not accept
ExpressRefusal ==
    IF last.res.limiter = "reject"
    THEN last.res.status = 429 /\ last.res.text = MsgTooMany
    ELSE last.res.status = 400 /\ last.res.text = MsgInvalidForm

\* C15 as claimed: a submission whose name is shorter than 2 or longer than 80
\* is answered 400 with the error that names the length of the name
C15_NameLengthError ==
    (IsRequest /\ NameOutOfRange(last.req))
        => (last.res.status = 400 /\ last.res.text = MsgNameLength)

\* C15: a submission whose name is shorter than 2 or longer than 80, whatever
\* the other fields, does not pass validation and sends nothing; the Lambda
\* answers 400 with the name-length error when the three fields are non-empty
\* and with the missing-fields error otherwise; the Express route answers 400
\* with its one error for every invalid body, or 429 when its limiter rejects
C15_NameRejected ==
    (IsRequest /\ NameOutOfRange(last.req))
        => /\ last.phase = "responded"
           /\ last.res.validated # "pass"
           /\ last.res.sendCalls = 0
           /\ variant = "lambda" =>
                 /\ last.res.status = 400
                 /\ last.res.text = IF Truthy(last.req.name) /\ Truthy(last.req.email)
                                          /\ Truthy(last.req.message)
                                     THEN MsgNameLength ELSE MsgMissingFields
           /\ variant = "express" => ExpressRefusal

C15_Witness ==
    /\ IsRequest /\ variant = "lambda"
    /\ last.req.name = Str(81) /\ last.req.email = Num(12345) /\ last.req.message = Str(9)
    /\ last.res.status = 400 /\ last.res.text = MsgNameLength

\* C16 as claimed: a submission whose message is shorter than 10 or longer
\* than 2000 is answered 400 with the error that names the length of the
\* message, and a message of length 10 or 2000 is accepted
C16_MessageLengthError ==
    /\ (IsRequest /\ MessageOutOfRange(last.req))
          => (last.res.status = 400 /\ last.res.text = MsgMessageLength)
    /\ (IsRequest /\ last.res.validated # "skipped" /\ last.req.raw = "object"
            /\ last.req.message \in {Str(10), Str(2000)})
          => last.res.text # MsgMessageLength

\* C16: a submission whose message is shorter than 10 or longer than 2000,
\* whatever the other fields, does not pass validation and sends nothing; the
\* Lambda answers with the first check that fails, in the order missing field,
\* name length, email, message length (500 when the email is a number); the
\* Express route answers 400 with its one error, or 429; and a message of
\* length 10 or 2000 passes validation when name and email are valid
C16_MessageRejected ==
    /\ (IsRequest /\ MessageOutOfRange(last.req))
          => /\ last.phase = "responded"
             /\ last.res.validated # "pass"
             /\ last.res.sendCalls = 0
             /\ variant = "lambda" =>
                   /\ last.res.text = LambdaVerdict(last.req)
                   /\ last.res.status = IF last.res.text = MsgFailedToSend THEN 500 ELSE 400
             /\ variant = "express" => ExpressRefusal
    /\ (IsRequest /\ last.res.validated # "skipped" /\ last.req.raw = "object"
            /\ last.req.message \in {Str(10), Str(2000)}
            /\ last.req.name.t = "string" /\ last.req.name.n \in 2..80
            /\ last.req.email.t = "string" /\ last.req.email.wf)
          => last.res.validated = "pass"

C16_Witness ==
    /\ IsRequest /\ variant = "lambda"
    /\ last.req.message = Str(2001) /\ last.req.name = Str(2) /\ last.req.email = Addr(2, FALSE)
    /\ last.res.status = 400 /\ last.res.text = MsgMessageLength

\* C17: with SMTP_PORT unset and the other five variables set, a valid,
\* admitted submission is not answered with the configuration error: the
\* handler gets to the transport, with port 587
C17_DefaultPort ==
    (IsRequest /\ ValidSubmission(last.req) /\ last.res.limiter = "admit"
        /\ last.res.envRead = [EnvFull EXCEPT !["SMTP_PORT"] = Unset])
        => /\ last.res.text # MsgNotConfigured
           /\ last.res.transport # "notreached"
           /\ last.res.options.port = 587

\* C18: the options handed to the transport have secure = true exactly when
\* their port is the number 465
C18_SecureIff465 ==
    last.res.transport # "notreached"
        => (last.res.options.secure <=> last.res.options.port = 465)

\* the honeypot value has at least one character that is not white space
HoneypotFilled(company) ==
    company.def /\ \E i \in 1..Len(company.chars) : company.chars[i] \notin WhiteSpace

\* C19: a submission made less than 1500 ms after the form mounted, with the
\* honeypot empty, gets the 'Please wait a moment before submitting.' toast
\* and calls emailjs.send not at all
C19_MinimumSubmitTime ==
    (submitted.at # -1 /\ ~HoneypotFilled(submitted.company)
        /\ submitted.since > 0 /\ submitted.at - submitted.since < 1500)
        => (submitted.toast = ToastWait /\ ~submitted.called)

Built == stack.version # "none"

CloudFrontOn == stack.props.enableCloudFront

DomainSet == stack.props.domainName \notin {Unset, ""}

\* C21: whatever enableCloudFront and domainName are, and whichever version of
\* the stack is built, the stack declares BucketName, BucketWebsiteUrl and
\* DeploymentRoleArn; DistributionId and DistributionDomainName exactly when
\* enableCloudFront is true; WebsiteUrl exactly when enableCloudFront is true
\* and domainName is set
C21_Outputs ==
    Built =>
        /\ AlwaysOutputs \subseteq stack.outputs
        /\ \A o \in DistributionOutputs : o \in stack.outputs <=> CloudFrontOn
        /\ "WebsiteUrl" \in stack.outputs <=> (CloudFrontOn /\ DomainSet)

\* C22: a stack built with a domainName has the ACM certificate and the
\* Route 53 alias record of the domain, with enableCloudFront true or false
C22_CustomDomain ==
    (Built /\ DomainSet) =>
        /\ "Certificate" \in stack.resources
        /\ "PortfolioARecord" \in stack.resources

\* the prop of the stack that a configuration variable stands for, as text
PropOf(name) ==
    CASE name = "BUCKET_NAME" -> stack.props.bucketName
      [] name = "GITHUB_USERNAME" -> stack.props.githubUsername
      [] name = "GITHUB_REPO_NAME" -> stack.props.githubRepoName
      [] name = "DOMAIN_NAME" -> stack.props.domainName
      [] name = "ENABLE_CLOUDFRONT" -> IF stack.props.enableCloudFront THEN "true" ELSE "false"

\* C23: an option of deploy.sh whose variable was not exported to the script,
\* and which no context value overrides, gives the stack that the CDK app
\* builds its value: the bucket name, the GitHub user and repository, the
\* domain name, and enableCloudFront = true
C23_OptionsReach ==
    Built =>
        \A n \in ShellNames :
            (shellVars[n].cli \notin {Unset, ""} /\ ~shellVars[n].exported
             /\ cdkContext = NoContext)
                => PropOf(n) = shellVars[n].cli


(* Lambda: CORS headers *)

\* a value that the Lambda has returned
LambdaReturned == variant = "lambda" /\ last.phase # "none" /\ last.res.status # 0

\* C24: every value the Lambda returns (preflight 200, 400, 429, 500, success
\* 200) carries the same four headers: Access-Control-Allow-Origin is
\* ALLOWED_ORIGIN when that is set and not empty and 'https://arjansubedi.com'
\* otherwise, Access-Control-Allow-Methods is 'POST, OPTIONS' and
\* Access-Control-Allow-Credentials is 'true'
C24_CorsHeaders ==
    LambdaReturned =>
        /\ DOMAIN last.res.headers = CorsHeaders
        /\ last.res.headers["Access-Control-Allow-Origin"] =
              (IF last.res.allowedOrigin \in {Unset, ""}
               THEN "https://arjansubedi.com" ELSE last.res.allowedOrigin)
        /\ last.res.headers["Access-Control-Allow-Methods"] = "POST, OPTIONS"
        /\ last.res.headers["Access-Control-Allow-Credentials"] = "true"
        /\ last.res.status \in {200, 400, 429, 500}

C24_Witness ==
    /\ LambdaReturned /\ last.method = "POST"
    /\ last.res.status = 429
    /\ last.res.allowedOrigin = "https://www.arjansubedi.com"
    /\ last.res.headers["Access-Control-Allow-Origin"] = "https://www.arjansubedi.com"


(* rate-limit map: content *)

\* the entry of an identifier in a Map: -1 when it has none
EntryOf(map, ip) == IF ip \in DOMAIN map THEN map[ip] ELSE -1

\* the process of an instance is replaced by a new one
Restarted(i) ==
    /\ hist[i] # [ip \in Ids |-> Hist0]
    /\ hist'[i] = [ip \in Ids |-> Hist0]

\* C25: in every state of a process, the Map has no entry for an identifier
\* from which no request was admitted and holds, for any other identifier,
\* exactly the time of its most recent admitted request; a request of one
\* identifier leaves the entry of every other identifier as it was, and no
\* step of a process removes an entry
C25_MapContent ==
    /\ [](\A i \in Instances, ip \in Ids :
            /\ ip \in DOMAIN rateLimitMap[i] <=> hist[i][ip].at # -1
            /\ EntryOf(rateLimitMap[i], ip) = hist[i][ip].at)
    /\ [][\A i \in Instances :
            /\ last' # last =>
                  \A b \in Ids \ {last'.ip} :
                      /\ b \in DOMAIN rateLimitMap'[i] <=> b \in DOMAIN rateLimitMap[i]
                      /\ EntryOf(rateLimitMap'[i], b) = EntryOf(rateLimitMap[i], b)
            /\ ~Restarted(i) => DOMAIN rateLimitMap[i] \subseteq DOMAIN rateLimitMap'[i]]_vars

C25_Witness ==
    /\ IsRequest /\ last.ip = "ip2" /\ last.res.limiter = "admit"
    /\ DOMAIN rateLimitMap[last.inst] = Ids
    /\ rateLimitMap[last.inst]["ip2"] = last.now
    /\ rateLimitMap[last.inst]["ip1"] = hist[last.inst]["ip1"].at
    /\ rateLimitMap[last.inst]["ip1"] < last.now
    /\ hist[last.inst]["ip1"].since = "rejects"

(* the two variants side by side: properties *)

\* C26: sent the same POST requests with string fields and an email that is
\* well-formed or has no '@', at the same times, in the same environment and
\* with the same transport behaviour, the Express route and the Lambda return
\* the same status codes in the same order and hold the same rate-limit map
C26_VariantsAgree ==
    /\ pairCodes.express = pairCodes.lambda
    /\ pairMaps.express = pairMaps.lambda

(* ContactSection: sending *)

\* C27: at most one call of emailjs.send is in flight at any time: a submit
\* event that comes after onSubmit has started and before its send has
\* settled, even before the component has rendered the disabled button,
\* starts no second send
C27_SingleFlight == sending <= 1

\* C28: an onSubmit that passes the honeypot and the minimum-time checks has
\* set isSubmitting to true (and cleared the toast) when it calls emailjs.send;
\* when the send has settled it ends with isSubmitting false and one toast:
\* the success toast, with the form reset, exactly when the send resolved
\* with status 200, and 'Failed to send message. Please try again.', with
\* the contents of the form kept, when it resolved otherwise or rejected
C28_Completion ==
    /\ submitted.called => (submitted.isSubmitting /\ submitted.toast = NoToast)
    /\ settled.result # "none" =>
          /\ ~settled.isSubmitting
          /\ settled.toast \in {ToastThanks, ToastFailed}
          /\ settled.result = "status200" <=>
                (settled.toast = ToastThanks /\ settled.fieldsAfter = "empty")
          /\ settled.result # "status200" =>
                (settled.toast = ToastFailed /\ settled.fieldsAfter = settled.fieldsBefore)

C28_Witness ==
    /\ settled.result = "rejected" /\ settled.toast = ToastFailed
    /\ settled.fieldsAfter = "filled"
    /\ ~isSubmitting /\ sending = 0 /\ toast = ToastFailed

(* Projects: properties *)

\* C29: the loading flag is true in every state in which at least one call of
\* fetchProjectSnippets is still in flight: when a second project is opened
\* while the fetch of the first is running, the end of the first fetch does
\* not set loading to false while the second is unfinished
C29_LoadingWhileFetching == fetching # <<>> => loading

\* the call for slug s that returns in this step
Returns(s) ==
    \E i \in 1..Len(fetching) :
        /\ fetching[i].slug = s
        /\ fetching' = Without(fetching, i)
        /\ completed'.slug = s

\* the entries stored under slug s differ after this step
Stored(s) ==
    /\ s \in DOMAIN snippets'
    /\ s \in DOMAIN snippets => snippets'[s] # snippets[s]

\* C30: a completed call of fetchProjectSnippets for a project with a
\* configuration stores under the slug of the project, and under no other,
\* either one entry for each configured file pattern, in the order of the
\* configuration, whatever happened to the files, or the one entry labelled
\* 'Error' when the request for the latest commit or for the tree failed; a
\* call for a slug without configuration changes neither snippets nor loading
C30_SnippetShape ==
    /\ [](completed.slug # "none" =>
            LET patterns == getProjectConfig(completed.slug).filePatterns IN
            /\ getProjectConfig(completed.slug) # NoConfig
            /\ completed.slug \in DOMAIN snippets
            /\ snippets[completed.slug] = completed.stored
            /\ completed.early => completed.stored = <<ErrorEntry>>
            /\ ~completed.early =>
                  /\ Len(completed.stored) = Len(patterns)
                  /\ \A k \in 1..Len(patterns) :
                        /\ completed.stored[k].label = patterns[k].label
                        /\ completed.stored[k].language = patterns[k].language)
    /\ [][/\ DOMAIN snippets \subseteq DOMAIN snippets'
          /\ \A s \in DOMAIN snippets' : Stored(s) => Returns(s)
          /\ (selectedProject' # selectedProject
                 /\ getProjectConfig(selectedProject') = NoConfig)
                => UNCHANGED <<loading, snippets, fetching>>]_vars

C30_Witness ==
    /\ completed.slug = "cloudshop" /\ ~completed.early
    /\ completed.stored[1].named
    /\ completed.stored[2].code = "// No files found matching pattern"
    /\ completed.stored[3].code = "// Error processing pattern"
    /\ "stock-wave-analyzer" \in DOMAIN snippets
    /\ snippets["stock-wave-analyzer"] = <<ErrorEntry>>
    /\ snippets["cloudshop"] = completed.stored

====
